---- MODULE Spec2Model ----
(***************************************************************************)
(* Model of src/src/simulation.rs: the simulation orchestrator (simulate,  *)
(* simulate_bundle, run), the chain resolver and the value normaliser.     *)
(* The Execution Context (super::evm::Evm) and the U256 parsers are not    *)
(* part of simulation.rs; they are modelled from their documented          *)
(* contract.                                                               *)
(***************************************************************************)
EXTENDS Integers, Sequences, FiniteSets, TLC

VARIABLES
    req,        \* req[r]: the request handed to the handler: [kind, txs]
    pc,         \* pc[r]: position of the handler task of request r
    idx,        \* idx[r]: number of elements the handler has taken from txs
    evm,        \* evm[r]: the handler's local `evm` (index into heap), 0 before Evm::new
    val,        \* val[r]: the local `value` of run (Option<Uint>)
    response,   \* response[r]: the local `response` (single: one element)
    result,     \* result[r]: "pending", "Ok", "panic" or the rejection returned
    heap,       \* every Execution Context constructed so far
    fin,        \* the arguments of a function applied on its own (Option)
    fout        \* what it returned (Option)

vars == <<req, pc, idx, evm, val, response, result, heap, fin, fout>>

----------------------------------------------------------------------------
(* Bounds *)

\* longest bundle of a request handled alone
MaxLen == 3
\* longest bundle of two requests handled concurrently
MaxConcLen == 2

----------------------------------------------------------------------------
(* Option<T> *)

None == <<>>
Some(x) == <<x>>
IsSome(o) == o # <<>>
Unwrap(o) == o[1]

----------------------------------------------------------------------------
(* Chain Resolver *)

\* mutant of AlchemyUrl: the format string has no placeholder
AlchemyUrlNoKey(host, alchemy_key) == <<host>>

\* format!("https://<host>.g.alchemy.com/v2/{alchemy_key}"): the text before
\* the placeholder, then the key
AlchemyUrl(host, alchemy_key) == <<host, alchemy_key>>

\* "<url>".to_string()
PublicUrl(url) == <<url>>

\* mutant of UnknownChain: an unknown chain falls back to a local node
UnknownChainFallback == [ok |-> TRUE, url |-> PublicUrl("http://localhost:8545")]

\* `_ => Err(NoURLForChainIdError)`, line 93
UnknownChain == [ok |-> FALSE, err |-> "NoURLForChainIdError"]

\* Result<String, Rejection>; a String is kept as the pieces it is made of
chain_id_to_fork_url(chain_id, alchemy_key) ==
    CASE chain_id = 1 ->
           [ok |-> TRUE, url |-> AlchemyUrl("https://eth-mainnet.g.alchemy.com/v2/", alchemy_key)]
      [] chain_id = 5 ->
           [ok |-> TRUE, url |-> AlchemyUrl("https://eth-goerli.g.alchemy.com/v2/", alchemy_key)]
      [] chain_id = 137 ->
           [ok |-> TRUE, url |-> AlchemyUrl("https://polygon-mainnet.g.alchemy.com/v2/", alchemy_key)]
      [] chain_id = 80001 ->
           [ok |-> TRUE, url |-> AlchemyUrl("https://polygon-mumbai.g.alchemy.com/v2/", alchemy_key)]
      [] chain_id = 43114 ->
           [ok |-> TRUE, url |-> PublicUrl("https://api.avax.network/ext/bc/C/rpc")]
      [] chain_id = 43113 ->
           [ok |-> TRUE, url |-> PublicUrl("https://api.avax-test.network/ext/bc/C/rpc")]
      [] chain_id = 250 ->
           [ok |-> TRUE, url |-> PublicUrl("https://rpcapi.fantom.network/")]
      [] chain_id = 4002 ->
           [ok |-> TRUE, url |-> PublicUrl("https://rpc.testnet.fantom.network/")]
      [] chain_id = 100 ->
           [ok |-> TRUE, url |-> PublicUrl("https://rpc.xdaichain.com/")]
      [] chain_id = 56 ->
           [ok |-> TRUE, url |-> PublicUrl("https://bsc-dataseed.binance.org/")]
      [] chain_id = 97 ->
           [ok |-> TRUE, url |-> PublicUrl("https://data-seed-prebsc-1-s1.binance.org:8545/")]
      [] chain_id = 42161 ->
           [ok |-> TRUE, url |-> PublicUrl("https://arb1.arbitrum.io/rpc")]
      [] chain_id = 421613 ->
           [ok |-> TRUE, url |-> PublicUrl("https://goerli-rollup.arbitrum.io/rpc")]
      [] chain_id = 10 ->
           [ok |-> TRUE, url |-> PublicUrl("https://mainnet.optimism.io/")]
      [] chain_id = 420 ->
           [ok |-> TRUE, url |-> PublicUrl("https://goerli.optimism.io/")]
      [] OTHER -> UnknownChain

AlchemyKey == "key"

----------------------------------------------------------------------------
(* Value Normalizer *)

HexDigits == <<"0","1","2","3","4","5","6","7","8","9","a","b","c","d","e","f">>
UpperHexDigits == <<"0","1","2","3","4","5","6","7","8","9","A","B","C","D","E","F">>
DecDigits == <<"0","1","2","3","4","5","6","7","8","9">>

\* the value of character c as a digit of `digits`, -1 when it is none
DigitVal(c, digits) ==
    IF \E i \in 1..Len(digits) : digits[i] = c
    THEN (CHOOSE i \in 1..Len(digits) : digits[i] = c) - 1
    ELSE -1

\* a hexadecimal digit in either case
HexDigitVal(c) ==
    IF DigitVal(c, HexDigits) >= 0 THEN DigitVal(c, HexDigits)
    ELSE DigitVal(c, UpperHexDigits)

RECURSIVE ParseHexDigits(_, _)
\* -1 when some character is no hexadecimal digit
ParseHexDigits(s, acc) ==
    IF s = <<>> THEN acc
    ELSE LET d == HexDigitVal(Head(s))
         IN  IF d < 0 THEN -1 ELSE ParseHexDigits(Tail(s), acc * 16 + d)

RECURSIVE ParseDigits(_, _, _)
\* -1 when some character is no digit of the base
ParseDigits(s, digits, acc) ==
    IF s = <<>> THEN acc
    ELSE LET d == DigitVal(Head(s), digits)
         IN  IF d < 0 THEN -1
             ELSE ParseDigits(Tail(s), digits, acc * Len(digits) + d)

\* mutant of starts_with_0x: the prefix test looks at the first character only
starts_with_0(s) == Len(s) >= 1 /\ s[1] = "0"

\* value.starts_with("0x")
starts_with_0x(s) == Len(s) >= 2 /\ s[1] = "0" /\ s[2] = "x"

\* 2 * 32 hexadecimal digits fill a U256
MaxEncodedLen == 64

\* Uint::from_str: hexadecimal, an optional 0x prefix stripped, at most
\* MaxEncodedLen digits, none at all is zero
UintFromStr(s) ==
    LET body == IF starts_with_0x(s) THEN SubSeq(s, 3, Len(s)) ELSE s
        n == ParseHexDigits(body, 0)
    IN  IF Len(body) > MaxEncodedLen \/ n < 0 THEN [ok |-> FALSE]
        ELSE [ok |-> TRUE, v |-> n]

\* Uint::from_dec_str: every byte a decimal digit, none at all is zero
\* (the overflow of a U256 is beyond the strings applied here)
UintFromDecStr(s) ==
    LET n == ParseDigits(s, DecDigits, 0)
    IN  IF n < 0 THEN [ok |-> FALSE] ELSE [ok |-> TRUE, v |-> n]

\* mutant of NormalizeValue: a value that does not parse counts as zero
NormalizeValueOrZero(value) ==
    IF IsSome(value)
    THEN LET p == IF starts_with_0x(Unwrap(value))
                  THEN UintFromStr(Unwrap(value))
                  ELSE UintFromDecStr(Unwrap(value))
         IN  IF p.ok THEN [ok |-> TRUE, v |-> Some(p.v)]
             ELSE [ok |-> TRUE, v |-> Some(0)]
    ELSE [ok |-> TRUE, v |-> None]

\* run, lines 103-111: Result<Option<Uint>, Rejection>
NormalizeValue(value) ==
    IF IsSome(value)
    THEN IF starts_with_0x(Unwrap(value))
         THEN LET p == UintFromStr(Unwrap(value))
              IN  IF p.ok THEN [ok |-> TRUE, v |-> Some(p.v)]
                  ELSE [ok |-> FALSE, err |-> "FromHexError"]
         ELSE LET p == UintFromDecStr(Unwrap(value))
              IN  IF p.ok THEN [ok |-> TRUE, v |-> Some(p.v)]
                  ELSE [ok |-> FALSE, err |-> "FromDecStrError"]
    ELSE [ok |-> TRUE, v |-> None]

----------------------------------------------------------------------------
(* Execution Context (super::evm::Evm) and the execution engine *)

LatestBlock == 9
GasBase == 21000

\* world state: the writes committed so far on top of the fork, oldest first
Baseline == <<>>

\* Evm::new(env, fork_url, fork_block_number, gas_limit, tracing, etherscan_key)
EvmNew(fork_url, fork_block_number, gas_limit) ==
    [fork_url |-> fork_url,
     block    |-> IF IsSome(fork_block_number) THEN Unwrap(fork_block_number)
                  ELSE LatestBlock,
     gas_limit |-> gas_limit,
     state    |-> Baseline,
     calls    |-> <<>>,
     live     |-> TRUE]

\* The engine on world state `state`: data "rv" reverts, any other data is a
\* write of that datum; the logs echo every write the call could read.
Execute(ctx, state, from, to, value, data, format_trace) ==
    LET success == data # Some("rv")
    IN  [gas_used     |-> GasBase + Len(state),
         block_number |-> ctx.block,
         success      |-> success,
         trace        |-> Some([arena |-> << [kind |-> "CALL", caller |-> from,
                                              address |-> to,
                                              value |-> IF IsSome(value) THEN Unwrap(value) ELSE 0,
                                              depth |-> 0] >>]),
         logs         |-> state,
         exit_reason  |-> IF success THEN "Return" ELSE "Revert",
         formatted_trace |-> IF format_trace THEN Some("trace") ELSE None]

\* the state a successful call leaves behind
Effects(state, data, success) ==
    IF success /\ IsSome(data) THEN Append(state, Unwrap(data)) ELSE state

InfraErrors == {"StateFetchError"}

\* what the remote state provider does during one call: answers, or fails
IoOutcomes == {"ok"} \cup InfraErrors

\* Result<RawCallResult, Rejection> of one call on ctx
CallResult(ctx, io, from, to, value, data, format_trace) ==
    IF io = "ok"
    THEN [ok |-> TRUE, out |-> Execute(ctx, ctx.state, from, to, value, data, format_trace)]
    ELSE [ok |-> FALSE, err |-> io]

LogCall(ctx, prim, data, ret) ==
    Append(ctx.calls, [prim |-> prim, data |-> data, pre |-> ctx.state, ret |-> ret])

\* evm.call_raw: executes on a scratch overlay, the persistent state stays
call_raw(ctx, io, from, to, value, data, format_trace) ==
    LET ret == CallResult(ctx, io, from, to, value, data, format_trace)
    IN  [ret |-> ret,
         ctx |-> [ctx EXCEPT !.calls = LogCall(ctx, "call_raw", data, ret)]]

\* evm.call_raw_committing: a successful call's writes are committed
call_raw_committing(ctx, io, from, to, value, data, gas_limit, format_trace) ==
    LET ret == CallResult(ctx, io, from, to, value, data, format_trace)
    IN  [ret |-> ret,
         ctx |-> [ctx EXCEPT
                    !.calls = LogCall(ctx, "call_raw_committing", data, ret),
                    !.state = IF ret.ok THEN Effects(ctx.state, data, ret.out.success)
                              ELSE ctx.state]]

----------------------------------------------------------------------------
(* Requests *)

\* characters of the value strings "0x10", "16", "0xg", "1.5"
Hex16 == <<"0", "x", "1", "0">>
Dec16 == <<"1", "6">>
BadHex == <<"0", "x", "g">>
BadDec == <<"1", ".", "5">>

\* SimulationRequest
Tx(chain_id, block_number, value, data) ==
    [chain_id |-> chain_id, from |-> "A", to |-> "B", data |-> data,
     gas_limit |-> GasBase, value |-> value, block_number |-> block_number,
     format_trace |-> None]

ChainIds == {1, 3}
BlockNumbers == {None, Some(7)}
Datas == {Some("a"), Some("b"), Some("rv")}

\* a request whose value does not parse never reaches the engine, so its
\* call data is left fixed
Txs ==
    {Tx(c, b, Some(Hex16), d) : c \in ChainIds, b \in BlockNumbers, d \in Datas}
    \cup {Tx(c, b, v, Some("a")) : c \in ChainIds, b \in BlockNumbers,
                                   v \in {None, Some(BadHex), Some(BadDec)}}

\* SimulationRequest with a gas limit of its own
TxWithGas(chain_id, block_number, value, data, gas_limit) ==
    [Tx(chain_id, block_number, value, data) EXCEPT !.gas_limit = gas_limit]

GasLimits == {21000, 50000}

\* requests that differ in gas limit
GasTxs ==
    {TxWithGas(c, b, None, Some("a"), g) : c \in ChainIds, b \in BlockNumbers,
                                          g \in GasLimits}
    \cup {TxWithGas(1, None, Some(BadDec), Some("a"), g) : g \in GasLimits}

\* the requests two concurrent tasks are given
ConcTxs ==
    {Tx(1, None, Some(Dec16), d) : d \in {Some("a"), Some("b")}}
    \cup {Tx(3, None, None, Some("a")), Tx(1, Some(7), None, Some("a")),
          Tx(1, None, Some(BadDec), Some("a"))}

RECURSIVE SeqsUpTo(_, _)
SeqsUpTo(S, n) ==
    IF n = 0 THEN {<<>>}
    ELSE LET shorter == SeqsUpTo(S, n - 1)
         IN  shorter \cup {Append(s, x) : s \in shorter, x \in S}

\* POST /simulate takes one request, POST /simulate-bundle a Vec of them
Inputs(T, n) ==
    {[kind |-> "single", txs |-> <<t>>] : t \in T}
    \cup {[kind |-> "bundle", txs |-> s] : s \in SeqsUpTo(T, n)}

Pending == [tag |-> "pending"]
Ok(json) == [tag |-> "Ok", json |-> json]
Err(e) == [tag |-> "Err", err |-> e]
Panic == [tag |-> "panic"]

InitWith(R, T, n) ==
    /\ req \in [R -> Inputs(T, n)]
    /\ pc = [r \in R |-> "start"]
    /\ idx = [r \in R |-> 0]
    /\ evm = [r \in R |-> 0]
    /\ val = [r \in R |-> None]
    /\ response = [r \in R |-> <<>>]
    /\ result = [r \in R |-> Pending]
    /\ heap = <<>>
    /\ fin = None
    /\ fout = None

Init == InitWith({1}, Txs, MaxLen)
InitConc == InitWith({1, 2}, ConcTxs, MaxConcLen)
InitGas == InitWith({1}, GasTxs, MaxLen)

Reqs == DOMAIN req

----------------------------------------------------------------------------
(* Response Assembler *)

\* CallTrace::from(node)
CallTraceFrom(node) ==
    [call_type |-> node.kind, from |-> node.caller, to |-> node.address,
     value |-> node.value]

\* mutant of FlattenTrace: the arena is walked from its end
FlattenTraceReversed(trace) ==
    LET arena == IF IsSome(trace) THEN Unwrap(trace).arena ELSE <<>>
    IN  [i \in 1..Len(arena) |-> CallTraceFrom(arena[Len(arena) + 1 - i])]

\* run, lines 139-145:
\* trace.unwrap_or_default().arena.into_iter().map(CallTrace::from).collect()
FlattenTrace(trace) ==
    LET arena == IF IsSome(trace) THEN Unwrap(trace).arena ELSE <<>>
    IN  [i \in 1..Len(arena) |-> CallTraceFrom(arena[i])]

\* mutant of Assemble: a formatted trace is made up when the engine gave none,
\* and a reverted outcome loses its logs
AssembleFabricating(out) ==
    [simulation_id |-> 1,
     gas_used      |-> out.gas_used,
     block_number  |-> out.block_number,
     success       |-> out.success,
     trace         |-> FlattenTrace(out.trace),
     logs          |-> IF out.success THEN out.logs ELSE <<>>,
     exit_reason   |-> out.exit_reason,
     formatted_trace |-> IF IsSome(out.formatted_trace) THEN out.formatted_trace
                         ELSE Some("")]

\* run, lines 134-149
Assemble(out) ==
    [simulation_id |-> 1,
     gas_used      |-> out.gas_used,
     block_number  |-> out.block_number,
     success       |-> out.success,
     trace         |-> FlattenTrace(out.trace),
     logs          |-> out.logs,
     exit_reason   |-> out.exit_reason,
     formatted_trace |-> out.formatted_trace]

----------------------------------------------------------------------------
(* Simulation Orchestrator *)

\* mutant of Alloc: one process-wide context, handed to every handler
AllocShared(h, ctx) ==
    IF h = <<>> THEN [heap |-> <<ctx>>, id |-> 1] ELSE [heap |-> h, id |-> 1]

\* `let mut evm = Evm::new(..)`: a context of the handler's own
Alloc(h, ctx) == [heap |-> Append(h, ctx), id |-> Len(h) + 1]

\* the local evm goes out of scope when the handler returns
Drop(h, id) == IF id = 0 THEN h ELSE [h EXCEPT ![id].live = FALSE]

\* mutants of SimulateCommit and BundleCommit: the flag flipped
SimulateCommitOn == TRUE
BundleCommitOff == FALSE

\* the `commit` argument simulate and simulate_bundle pass to run
SimulateCommit == FALSE
BundleCommit == TRUE

\* mutant of Try: a reverted outcome leaves run early too
TryStrict(ret) ==
    IF ret.ok /\ ret.out.success THEN [continue |-> TRUE, v |-> ret.out]
    ELSE [continue |-> FALSE, err |-> IF ret.ok THEN "ExecutionReverted" ELSE ret.err]

\* `.await?` on the context's call: only an Err leaves run early
Try(ret) ==
    IF ret.ok THEN [continue |-> TRUE, v |-> ret.out]
    ELSE [continue |-> FALSE, err |-> ret.err]

\* run, lines 113-149: the call and the assembly of its outcome
RunCallPart(ctx, io, transaction, value, commit) ==
    LET c == IF commit
             THEN call_raw_committing(ctx, io, transaction.from, transaction.to, value,
                                      transaction.data, transaction.gas_limit,
                                      IsSome(transaction.format_trace)
                                        /\ Unwrap(transaction.format_trace))
             ELSE call_raw(ctx, io, transaction.from, transaction.to, value,
                           transaction.data,
                           IsSome(transaction.format_trace)
                             /\ Unwrap(transaction.format_trace))
        t == Try(c.ret)
    IN  [ctx |-> c.ctx,
         ret |-> IF t.continue THEN [ok |-> TRUE, v |-> Assemble(t.v)]
                 ELSE [ok |-> FALSE, err |-> t.err]]

\* mutant of Push: the response is put in front
PushFront(resp, x) == <<x>> \o resp

\* response.push(..)
Push(resp, x) == Append(resp, x)

\* mutant of BundleErr: the loop is left and the responses so far are the reply
BundleErrPartial(e, resp) == Ok(resp)

\* `run(..).await?` in the loop of simulate_bundle: the error is the reply
BundleErr(e, resp) == Err(e)

\* simulate, lines 153-162
SimulateStart(r) ==
    /\ pc[r] = "start"
    /\ req[r].kind = "single"
    /\ LET transaction == req[r].txs[1]
           fork_url == chain_id_to_fork_url(transaction.chain_id, AlchemyKey)
       IN  IF ~fork_url.ok
           THEN /\ result' = [result EXCEPT ![r] = Err(fork_url.err)]
                /\ pc' = [pc EXCEPT ![r] = "done"]
                /\ UNCHANGED <<idx, evm, heap>>
           ELSE LET a == Alloc(heap, EvmNew(fork_url.url, transaction.block_number,
                                            transaction.gas_limit))
                IN  /\ heap' = a.heap
                    /\ evm' = [evm EXCEPT ![r] = a.id]
                    /\ idx' = [idx EXCEPT ![r] = 1]
                    /\ pc' = [pc EXCEPT ![r] = "run"]
                    /\ UNCHANGED result
    /\ UNCHANGED <<req, val, response>>

\* mutant of Element: the loop walks the sequence from its end
ElementReversed(transactions, i) == transactions[Len(transactions) + 1 - i]

\* the i-th transaction of the request (1-based): `transaction` of simulate,
\* the loop variable of `for transaction in transactions` (line 188)
Element(transactions, i) == transactions[i]

\* mutant of ContextSource: the last element's block and gas limit
ContextSourceLast(transactions) == transactions[Len(transactions)]

\* simulate_bundle, lines 174 and 182: the element whose block height and gas
\* limit the context is built with
ContextSource(transactions) == transactions[1]

\* mutant of IndexOutOfBounds: an empty bundle is answered with no responses
EmptyReply == Ok(<<>>)

\* `transactions[0]` on an empty Vec, line 173: the handler panics
IndexOutOfBounds == Panic

\* simulate_bundle, lines 173-187
BundleStart(r) ==
    /\ pc[r] = "start"
    /\ req[r].kind = "bundle"
    /\ LET transactions == req[r].txs
       IN  IF Len(transactions) = 0
           THEN /\ result' = [result EXCEPT ![r] = IndexOutOfBounds]
                /\ pc' = [pc EXCEPT ![r] = "done"]
                /\ UNCHANGED <<evm, heap>>
           ELSE LET fork_url == chain_id_to_fork_url(transactions[1].chain_id, AlchemyKey)
                IN  IF ~fork_url.ok
                    THEN /\ result' = [result EXCEPT ![r] = Err(fork_url.err)]
                         /\ pc' = [pc EXCEPT ![r] = "done"]
                         /\ UNCHANGED <<evm, heap>>
                    ELSE LET a == Alloc(heap, EvmNew(fork_url.url,
                                                     ContextSource(transactions).block_number,
                                                     ContextSource(transactions).gas_limit))
                         IN  /\ heap' = a.heap
                             /\ evm' = [evm EXCEPT ![r] = a.id]
                             /\ pc' = [pc EXCEPT ![r] = "loop"]
                             /\ UNCHANGED result
    /\ UNCHANGED <<req, idx, val, response>>

\* mutant of BlockMismatch: the block height of an element is not looked at
BlockMismatchIgnored(transaction, first_block_number) == FALSE

\* `transaction.block_number != first_block_number`, line 192
BlockMismatch(transaction, first_block_number) ==
    transaction.block_number # first_block_number

\* simulate_bundle, lines 188-198: the head of one loop iteration, or the reply
BundleNext(r) ==
    /\ pc[r] = "loop"
    /\ LET transactions == req[r].txs
           first_chain_id == transactions[1].chain_id
           first_block_number == transactions[1].block_number
       IN  IF idx[r] = Len(transactions)
           THEN /\ result' = [result EXCEPT ![r] = Ok(response[r])]
                /\ pc' = [pc EXCEPT ![r] = "done"]
                /\ heap' = Drop(heap, evm[r])
                /\ UNCHANGED idx
           ELSE LET transaction == Element(transactions, idx[r] + 1)
                IN  IF transaction.chain_id # first_chain_id
                    THEN /\ result' = [result EXCEPT ![r] = Err("MultipleChainIdsError")]
                         /\ pc' = [pc EXCEPT ![r] = "done"]
                         /\ heap' = Drop(heap, evm[r])
                         /\ UNCHANGED idx
                    ELSE IF BlockMismatch(transaction, first_block_number)
                    THEN /\ result' = [result EXCEPT ![r] = Err("MultipleBlockNumbersError")]
                         /\ pc' = [pc EXCEPT ![r] = "done"]
                         /\ heap' = Drop(heap, evm[r])
                         /\ UNCHANGED idx
                    ELSE /\ idx' = [idx EXCEPT ![r] = idx[r] + 1]
                         /\ pc' = [pc EXCEPT ![r] = "run"]
                         /\ UNCHANGED <<result, heap>>
    /\ UNCHANGED <<req, evm, val, response>>

\* run, lines 103-111, for the transaction the handler passed
RunValue(r) ==
    /\ pc[r] = "run"
    /\ LET transaction == Element(req[r].txs, idx[r])
           value == NormalizeValue(transaction.value)
       IN  IF ~value.ok
           THEN /\ result' = [result EXCEPT ![r] =
                                IF req[r].kind = "bundle"
                                THEN BundleErr(value.err, response[r])
                                ELSE Err(value.err)]
                /\ pc' = [pc EXCEPT ![r] = "done"]
                /\ heap' = Drop(heap, evm[r])
                /\ UNCHANGED val
           ELSE /\ val' = [val EXCEPT ![r] = value.v]
                /\ pc' = [pc EXCEPT ![r] = "call"]
                /\ UNCHANGED <<result, heap>>
    /\ UNCHANGED <<req, idx, evm, response>>

\* run, lines 113-149, and what the handler does with its result:
\* simulate, lines 164-166; simulate_bundle, line 195
RunCall(r) ==
    /\ pc[r] = "call"
    /\ \E io \in IoOutcomes :
         LET transaction == Element(req[r].txs, idx[r])
             bundle == req[r].kind = "bundle"
             ran == RunCallPart(heap[evm[r]], io, transaction, val[r],
                                IF bundle THEN BundleCommit ELSE SimulateCommit)
             h == [heap EXCEPT ![evm[r]] = ran.ctx]
         IN  IF ~ran.ret.ok
             THEN /\ result' = [result EXCEPT ![r] =
                                  IF bundle THEN BundleErr(ran.ret.err, response[r])
                                  ELSE Err(ran.ret.err)]
                  /\ pc' = [pc EXCEPT ![r] = "done"]
                  /\ heap' = Drop(h, evm[r])
                  /\ UNCHANGED response
             ELSE IF bundle
             THEN /\ response' = [response EXCEPT ![r] = Push(response[r], ran.ret.v)]
                  /\ pc' = [pc EXCEPT ![r] = "loop"]
                  /\ heap' = h
                  /\ UNCHANGED result
             ELSE /\ response' = [response EXCEPT ![r] = <<ran.ret.v>>]
                  /\ result' = [result EXCEPT ![r] = Ok(ran.ret.v)]
                  /\ pc' = [pc EXCEPT ![r] = "done"]
                  /\ heap' = Drop(h, evm[r])
    /\ UNCHANGED <<req, idx, evm, val>>

Next ==
    \/ (\E r \in Reqs : SimulateStart(r)) /\ UNCHANGED <<fin, fout>>
    \/ (\E r \in Reqs : BundleStart(r)) /\ UNCHANGED <<fin, fout>>
    \/ (\E r \in Reqs : BundleNext(r)) /\ UNCHANGED <<fin, fout>>
    \/ (\E r \in Reqs : RunValue(r)) /\ UNCHANGED <<fin, fout>>
    \/ (\E r \in Reqs : RunCall(r)) /\ UNCHANGED <<fin, fout>>

Spec == Init /\ [][Next]_vars
SpecConc == InitConc /\ [][Next]_vars
SpecGas == InitGas /\ [][Next]_vars

----------------------------------------------------------------------------
(* Properties *)

IsBundle(r) == req[r].kind = "bundle"
IsSingle(r) == req[r].kind = "single"
HasEvm(r) == evm[r] # 0
Calls(r) == IF HasEvm(r) THEN heap[evm[r]].calls ELSE <<>>
Rejected(r, e) == result[r].tag = "Err" /\ result[r].err = e
Replied(r) == result[r].tag = "Ok"

ValidationErrors ==
    {"NoURLForChainIdError", "FromHexError", "FromDecStrError",
     "MultipleChainIdsError", "MultipleBlockNumbersError"}

\* C1: in every reply of simulate_bundle the simulation identifiers of the
\* responses are pairwise distinct.
C1_DistinctSimulationIds ==
    \A r \in Reqs :
        (IsBundle(r) /\ Replied(r)) =>
            \A i, j \in 1..Len(result[r].json) :
                i # j => result[r].json[i].simulation_id # result[r].json[j].simulation_id

\* C2: when simulate_bundle rejects with MultipleChainIdsError or
\* MultipleBlockNumbersError, no call has been made on the context.
C2_NoExecutionBeforeMismatchRejection ==
    \A r \in Reqs :
        (IsBundle(r) /\ (Rejected(r, "MultipleChainIdsError")
                         \/ Rejected(r, "MultipleBlockNumbersError")))
            => Calls(r) = <<>>

\* C3: every validation error is raised before any Execution Context has
\* been constructed for the request.
C3_ValidationBeforeEvmNew ==
    \A r \in Reqs :
        (result[r].tag = "Err" /\ result[r].err \in ValidationErrors) => ~HasEvm(r)

DisagreesOnChain(txs) == \E i \in 1..Len(txs) : txs[i].chain_id # txs[1].chain_id
DisagreesOnBlock(txs) == \E i \in 1..Len(txs) : txs[i].block_number # txs[1].block_number

SupportedChain(chain_id) == chain_id_to_fork_url(chain_id, AlchemyKey).ok

\* C4: a bundle with an element whose chain identifier differs from the
\* first element's is rejected with MultipleChainIdsError; a bundle whose
\* chain identifiers agree and with an element whose block height differs is
\* rejected with MultipleBlockNumbersError; whatever the other fields and
\* the outcomes of earlier executions. (Stated for the bundles whose first
\* chain has a fork endpoint: the others end in NoURLForChainIdError.)
C4_MismatchAlwaysRejected ==
    \A r \in Reqs :
        (IsBundle(r) /\ pc[r] = "done" /\ Len(req[r].txs) > 0
         /\ SupportedChain(req[r].txs[1].chain_id)) =>
            /\ DisagreesOnChain(req[r].txs) => Rejected(r, "MultipleChainIdsError")
            /\ (~DisagreesOnChain(req[r].txs) /\ DisagreesOnBlock(req[r].txs))
                  => Rejected(r, "MultipleBlockNumbersError")

----------------------------------------------------------------------------
(* What a bundle's transactions do when nothing but the bundle runs *)

FormatTrace(t) == IsSome(t.format_trace) /\ Unwrap(t.format_trace)

\* the context simulate_bundle builds for txs (first chain supported)
FirstCtx(txs) ==
    EvmNew(chain_id_to_fork_url(txs[1].chain_id, AlchemyKey).url,
           txs[1].block_number, txs[1].gas_limit)

\* the engine outcome of t on world state s
OutcomeOn(c, s, t) ==
    Execute(c, s, t.from, t.to, NormalizeValue(t.value).v, t.data, FormatTrace(t))

RECURSIVE CommittedAfter(_, _)
\* the baseline with the effects of txs[1..k] applied in input order
CommittedAfter(txs, k) ==
    IF k = 0 THEN Baseline
    ELSE LET s == CommittedAfter(txs, k - 1)
         IN  Effects(s, txs[k].data, OutcomeOn(FirstCtx(txs), s, txs[k]).success)

Reverts(t) == ~OutcomeOn(FirstCtx(<<t>>), Baseline, t).success

\* C5: in a bundle, the state transaction k executes against is the fork
\* baseline with the committed effects of transactions 1..k-1 applied in
\* input order, and the context's state after k calls is that of 1..k.
C5_BundleStateCarryOver ==
    \A r \in Reqs :
        (IsBundle(r) /\ HasEvm(r)) =>
            /\ \A k \in 1..Len(Calls(r)) :
                  /\ Calls(r)[k].data = req[r].txs[k].data
                  /\ Calls(r)[k].pre = CommittedAfter(req[r].txs, k - 1)
            /\ (\A k \in 1..Len(Calls(r)) : Calls(r)[k].ret.ok)
                  => heap[evm[r]].state = CommittedAfter(req[r].txs, Len(Calls(r)))

\* the third transaction is about to run on the writes "a", "b" of the first two
C5_Witness ==
    \E r \in Reqs :
        /\ IsBundle(r) /\ pc[r] = "done" /\ Len(Calls(r)) = 3
        /\ Calls(r)[3].pre = <<"a", "b">>
        /\ Calls(r)[2].pre = <<"a">>

\* the reply of a single simulation of t on a context of its own
AloneSingle(t) ==
    LET fork_url == chain_id_to_fork_url(t.chain_id, AlchemyKey)
    IN  IF ~fork_url.ok THEN Err(fork_url.err)
        ELSE IF ~NormalizeValue(t.value).ok THEN Err(NormalizeValue(t.value).err)
        ELSE Ok(Assemble(OutcomeOn(FirstCtx(<<t>>), Baseline, t)))

\* C6: a single simulation calls only the read-only primitive, on the fork
\* baseline, and leaves the persistent state of its context equal to the
\* baseline; its reply is that of the transaction on the baseline, whatever
\* another single simulation did before.
C6_SingleReadOnly ==
    \A r \in Reqs :
        IsSingle(r) =>
            /\ HasEvm(r) =>
                  /\ heap[evm[r]].state = Baseline
                  /\ Len(Calls(r)) <= 1
                  /\ \A k \in 1..Len(Calls(r)) :
                        Calls(r)[k].prim = "call_raw" /\ Calls(r)[k].pre = Baseline
            /\ Replied(r) => result[r] = AloneSingle(req[r].txs[1])

\* A's single simulation, a write, has replied; B's, on the same chain and
\* block, has now executed too
C6_Witness ==
    /\ Reqs = {1, 2} /\ IsSingle(1) /\ IsSingle(2)
    /\ req[1].txs[1].chain_id = req[2].txs[1].chain_id
    /\ req[1].txs[1].block_number = req[2].txs[1].block_number
    /\ req[1].txs[1].data = Some("a")
    /\ Replied(1) /\ result[1].json.success
    /\ evm[1] < evm[2]
    /\ Replied(2) /\ result[2].json.logs = Baseline

\* every element passes every validation of the handler
AllValid(txs) ==
    /\ Len(txs) > 0
    /\ SupportedChain(txs[1].chain_id)
    /\ ~DisagreesOnChain(txs) /\ ~DisagreesOnBlock(txs)
    /\ \A i \in 1..Len(txs) : NormalizeValue(txs[i].value).ok

NoInfraFailure(r) == \A k \in 1..Len(Calls(r)) : Calls(r)[k].ret.ok

\* C7: a reverted transaction of a bundle gets a response with success =
\* false and does not end the bundle: a bundle of n valid transactions with
\* no infrastructure failure replies with n responses.
C7_RevertDoesNotAbort ==
    \A r \in Reqs :
        IsBundle(r) =>
            /\ \A k \in 1..Len(Calls(r)) :
                  (Calls(r)[k].ret.ok /\ ~Calls(r)[k].ret.out.success) =>
                      /\ Len(response[r]) >= k
                      /\ response[r][k].success = FALSE
                      /\ response[r][k].exit_reason = "Revert"
            /\ (pc[r] = "done" /\ AllValid(req[r].txs) /\ NoInfraFailure(r)) =>
                  /\ Replied(r)
                  /\ Len(result[r].json) = Len(req[r].txs)
                  /\ Len(Calls(r)) = Len(req[r].txs)

\* the first two of three transactions revert, the third is executed
C7_Witness ==
    \E r \in Reqs :
        /\ IsBundle(r) /\ Replied(r) /\ Len(result[r].json) = 3
        /\ ~result[r].json[1].success
        /\ ~result[r].json[2].success
        /\ result[r].json[3].success

\* C8: when the call of transaction k fails at the infrastructure level,
\* simulate_bundle returns that error, no responses, and makes no later call.
C8_InfraErrorAborts ==
    \A r \in Reqs :
        IsBundle(r) =>
            \A k \in 1..Len(Calls(r)) :
                ~Calls(r)[k].ret.ok =>
                    /\ k = Len(Calls(r))
                    /\ pc[r] = "done"
                    /\ result[r] = Err(Calls(r)[k].ret.err)

\* the second of three transactions fails after the first was executed
C8_Witness ==
    \E r \in Reqs :
        /\ IsBundle(r) /\ Len(req[r].txs) = 3 /\ Len(Calls(r)) = 2
        /\ Calls(r)[1].ret.ok /\ ~Calls(r)[2].ret.ok
        /\ Len(response[r]) = 1
        /\ Rejected(r, "StateFetchError")

\* response i of a bundle: the outcome of txs[i] after txs[1..i-1], assembled
ExpectedResponses(txs) ==
    [i \in 1..Len(txs) |->
        Assemble(OutcomeOn(FirstCtx(txs), CommittedAfter(txs, i - 1), txs[i]))]

\* C9: a reply of simulate_bundle on n requests holds n responses, the i-th
\* being the assembled outcome of executing request i.
C9_ReplyIndexAligned ==
    \A r \in Reqs :
        (IsBundle(r) /\ Replied(r)) =>
            /\ Len(result[r].json) = Len(req[r].txs)
            /\ result[r].json = ExpectedResponses(req[r].txs)

\* three requests with three different outcomes
C9_Witness ==
    \E r \in Reqs :
        /\ IsBundle(r) /\ Replied(r) /\ Len(result[r].json) = 3
        /\ result[r].json[1] # result[r].json[2]
        /\ result[r].json[2] # result[r].json[3]
        /\ result[r].json[1] # result[r].json[3]

RECURSIVE AloneBundleFrom(_, _)
\* the loop of a bundle from element k on, no call failing
AloneBundleFrom(txs, k) ==
    IF k > Len(txs) THEN Ok(ExpectedResponses(txs))
    ELSE IF txs[k].chain_id # txs[1].chain_id THEN Err("MultipleChainIdsError")
    ELSE IF txs[k].block_number # txs[1].block_number THEN Err("MultipleBlockNumbersError")
    ELSE IF ~NormalizeValue(txs[k].value).ok THEN Err(NormalizeValue(txs[k].value).err)
    ELSE AloneBundleFrom(txs, k + 1)

\* the result of a request handled alone, no call failing
Alone(input) ==
    IF input.kind = "single" THEN AloneSingle(input.txs[1])
    ELSE IF Len(input.txs) = 0 THEN Panic
    ELSE IF ~SupportedChain(input.txs[1].chain_id)
    THEN Err(chain_id_to_fork_url(input.txs[1].chain_id, AlchemyKey).err)
    ELSE AloneBundleFrom(input.txs, 1)

\* C10: concurrent requests have contexts of their own: no two requests
\* share a context, the state a call sees comes from the request's own
\* earlier transactions only, and a request's result is the one it would
\* have had alone.
C10_RequestsIsolated ==
    /\ \A r1, r2 \in Reqs :
          (r1 # r2 /\ HasEvm(r1) /\ HasEvm(r2)) => evm[r1] # evm[r2]
    /\ \A r \in Reqs :
          /\ \A k \in 1..Len(Calls(r)) :
                Calls(r)[k].pre = IF IsBundle(r) THEN CommittedAfter(req[r].txs, k - 1)
                                  ELSE Baseline
          /\ (pc[r] = "done" /\ NoInfraFailure(r)) => result[r] = Alone(req[r])

\* two bundles in flight, each with a write committed on its context
C10_Witness ==
    /\ Reqs = {1, 2} /\ IsBundle(1) /\ IsBundle(2)
    /\ pc[1] = "call" /\ pc[2] = "call"
    /\ heap[evm[1]].state = <<"a">>
    /\ heap[evm[2]].state = <<"b">>

----------------------------------------------------------------------------
(* The Chain Resolver applied on its own *)

\* no handler is running
NoRequests ==
    /\ req = <<>> /\ pc = <<>> /\ idx = <<>> /\ evm = <<>> /\ val = <<>>
    /\ response = <<>> /\ result = <<>> /\ heap = <<>>

ProbedChainIds ==
    {1, 5, 137, 80001, 43114, 43113, 250, 4002, 100, 56, 97, 42161, 421613, 10, 420}
    \cup {0, 2, 3, 4, 6, 11, 136, 138, 419, 421, 80002, 421614}
ProbedKeys == {"", "k1", "k2"}

InitResolver ==
    /\ NoRequests
    /\ fin \in {Some([chain_id |-> c, alchemy_key |-> k]) : c \in ProbedChainIds,
                                                           k \in ProbedKeys}
    /\ fout = None

Resolve ==
    /\ fout = None
    /\ fout' = Some(chain_id_to_fork_url(Unwrap(fin).chain_id, Unwrap(fin).alchemy_key))
    /\ UNCHANGED <<req, pc, idx, evm, val, response, result, heap, fin>>

NextResolver == Resolve

SpecResolver == InitResolver /\ [][NextResolver]_vars

KnownChainIds ==
    {1, 5, 137, 80001, 43114, 43113, 250, 4002, 100, 56, 97, 42161, 421613, 10, 420}
CredentialedChainIds == {1, 5, 137, 80001}

\* the text of a String kept as pieces is empty when every piece is
NonEmptyString(str) == \E i \in 1..Len(str) : str[i] # ""
\* the credential is one of the pieces
HoldsKey(str, key) == \E i \in 1..Len(str) : str[i] = key

\* C11: chain_id_to_fork_url returns a non-empty URL for every identifier of
\* the known set and NoURLForChainIdError for every other identifier; the URL
\* holds the credential for the chains 1, 5, 137, 80001 and for no other.
C11_ResolverTable ==
    IsSome(fout) =>
        LET c == Unwrap(fin).chain_id
            k == Unwrap(fin).alchemy_key
            r == Unwrap(fout)
        IN  /\ c \in KnownChainIds =>
                  /\ r.ok
                  /\ NonEmptyString(r.url)
                  /\ HoldsKey(r.url, k) <=> c \in CredentialedChainIds
            /\ c \notin KnownChainIds => (~r.ok /\ r.err = "NoURLForChainIdError")

\* a credentialed chain resolved with a key
C11_Witness ==
    /\ IsSome(fout)
    /\ Unwrap(fin).chain_id = 80001
    /\ Unwrap(fin).alchemy_key = "k2"
    /\ Unwrap(fout).ok

----------------------------------------------------------------------------
(* The Value Normalizer applied on its own *)

\* longest value string
MaxStrLen == 4

ValueChars == {"0", "1", "6", "x", "a", "F", "g", "."}

ValueStrings == SeqsUpTo(ValueChars, MaxStrLen)

InitNormalizer ==
    /\ NoRequests
    /\ fin \in {Some([value |-> v]) : v \in {None} \cup {Some(str) : str \in ValueStrings}}
    /\ fout = None

Normalize ==
    /\ fout = None
    /\ fout' = Some(NormalizeValue(Unwrap(fin).value))
    /\ UNCHANGED <<req, pc, idx, evm, val, response, result, heap, fin>>

NextNormalizer == Normalize

SpecNormalizer == InitNormalizer /\ [][NextNormalizer]_vars

\* the number a character stands for as a digit, by base
CharValue(c) ==
    CASE c = "0" -> 0 [] c = "1" -> 1 [] c = "6" -> 6
      [] c = "a" -> 10 [] c = "F" -> 15 [] OTHER -> 99

IsNumeral(str, base) == \A i \in 1..Len(str) : CharValue(str[i]) < base

RECURSIVE Power(_, _)
Power(b, n) == IF n = 0 THEN 1 ELSE b * Power(b, n - 1)

RECURSIVE Denoted(_, _)
\* the number the numeral str denotes in the base: digit i weighs base^(n-i)
Denoted(str, base) ==
    IF str = <<>> THEN 0
    ELSE CharValue(Head(str)) * Power(base, Len(str) - 1) + Denoted(Tail(str), base)

HasHexPrefix(str) == Len(str) >= 2 /\ SubSeq(str, 1, 2) = <<"0", "x">>

\* C12: an absent value normalizes to an absent value without error; a
\* present value with the prefix 0x is read as hexadecimal, giving the number
\* it denotes or FromHexError; any other present value is read as decimal,
\* giving the number it denotes or FromDecStrError; so 0x10 and 16 both give
\* 16. (A numeral is a possibly empty run of digits of the base; the empty
\* one denotes zero.)
C12_ValueNormalization ==
    IsSome(fout) =>
        LET value == Unwrap(fin).value
            r == Unwrap(fout)
        IN  /\ value = None => (r.ok /\ r.v = None)
            /\ (IsSome(value) /\ HasHexPrefix(Unwrap(value))) =>
                  LET body == SubSeq(Unwrap(value), 3, Len(Unwrap(value)))
                  IN  IF IsNumeral(body, 16)
                      THEN r.ok /\ r.v = Some(Denoted(body, 16))
                      ELSE ~r.ok /\ r.err = "FromHexError"
            /\ (IsSome(value) /\ ~HasHexPrefix(Unwrap(value))) =>
                  IF IsNumeral(Unwrap(value), 10)
                  THEN r.ok /\ r.v = Some(Denoted(Unwrap(value), 10))
                  ELSE ~r.ok /\ r.err = "FromDecStrError"
            /\ value \in {Some(Hex16), Some(Dec16)} => (r.ok /\ r.v = Some(16))

\* "0x10" has been normalized to 16
C12_Witness ==
    /\ IsSome(fout)
    /\ Unwrap(fin).value = Some(Hex16)
    /\ Unwrap(fout).ok
    /\ Unwrap(fout).v = Some(16)

----------------------------------------------------------------------------
(* The Response Assembler applied on its own *)

\* most nodes in a call-trace arena
MaxArena == 3

\* CallTraceNode: a call, a static sub-call and a delegate sub-call
ArenaNodes ==
    {[kind |-> "CALL", caller |-> "A", address |-> "B", value |-> 1, depth |-> 0],
     [kind |-> "STATICCALL", caller |-> "B", address |-> "C", value |-> 0, depth |-> 1],
     [kind |-> "DELEGATECALL", caller |-> "B", address |-> "D", value |-> 0, depth |-> 1]}

\* RawCallResult, as far as run reads it
Outcomes ==
    [gas_used : {21000, 30000},
     block_number : {7, 9},
     success : BOOLEAN,
     trace : {None} \cup {Some([arena |-> a]) : a \in SeqsUpTo(ArenaNodes, MaxArena)},
     logs : {<<>>, <<"a">>, <<"b", "a">>},
     exit_reason : {"Return", "Revert"},
     formatted_trace : {None, Some("trace")}]

InitAssembler ==
    /\ NoRequests
    /\ fin \in {Some(out) : out \in Outcomes}
    /\ fout = None

AssembleOutcome ==
    /\ fout = None
    /\ fout' = Some(Assemble(Unwrap(fin)))
    /\ UNCHANGED <<req, pc, idx, evm, val, response, result, heap, fin>>

NextAssembler == AssembleOutcome

SpecAssembler == InitAssembler /\ [][NextAssembler]_vars

\* the arena of an outcome, empty when the engine kept no trace
ArenaOf(out) == IF out.trace = None THEN <<>> ELSE out.trace[1].arena

\* C13: the trace of a response has one CallTrace per node of the arena, in
\* arena order: entry i is the conversion of node i.
C13_TraceOneToOneInOrder ==
    IsSome(fout) =>
        LET arena == ArenaOf(Unwrap(fin))
            trace == Unwrap(fout).trace
        IN  /\ Len(trace) = Len(arena)
            /\ \A i \in 1..Len(arena) :
                  /\ trace[i].call_type = arena[i].kind
                  /\ trace[i].from = arena[i].caller
                  /\ trace[i].to = arena[i].address
                  /\ trace[i].value = arena[i].value

\* a call with two different sub-calls, in invocation order
C13_Witness ==
    /\ IsSome(fout)
    /\ Len(Unwrap(fout).trace) = 3
    /\ Unwrap(fout).trace[1].call_type = "CALL"
    /\ Unwrap(fout).trace[2].call_type = "STATICCALL"
    /\ Unwrap(fout).trace[3].call_type = "DELEGATECALL"

\* the six fields run passes through
CopiedUnchanged(out, resp) ==
    /\ resp.gas_used = out.gas_used
    /\ resp.block_number = out.block_number
    /\ resp.success = out.success
    /\ resp.logs = out.logs
    /\ resp.exit_reason = out.exit_reason
    /\ resp.formatted_trace = out.formatted_trace

\* C15 as claimed: the assembler copies gas used, block number, success
\* flag, logs, exit status and formatted trace unchanged, and every field of
\* the response is taken from a field of the engine outcome.
C15_NothingButTheOutcome ==
    IsSome(fout) =>
        /\ CopiedUnchanged(Unwrap(fin), Unwrap(fout))
        /\ \A f \in DOMAIN Unwrap(fout) : f \in DOMAIN Unwrap(fin)

\* C15 as amended: the same, for every field of the response but the
\* simulation identifier, which has no source in the engine outcome.
C15_CopiesUnchanged ==
    IsSome(fout) =>
        /\ CopiedUnchanged(Unwrap(fin), Unwrap(fout))
        /\ \A f \in DOMAIN Unwrap(fout) \ {"simulation_id"} : f \in DOMAIN Unwrap(fin)

\* a reverted outcome with logs and no formatted trace has been assembled
C15_Witness ==
    /\ IsSome(fout)
    /\ ~Unwrap(fin).success
    /\ Unwrap(fin).exit_reason = "Revert"
    /\ Unwrap(fin).logs = <<"b", "a">>
    /\ Unwrap(fin).formatted_trace = None
    /\ Unwrap(fout).logs = <<"b", "a">>

----------------------------------------------------------------------------
(* Contexts and calls of one request *)

\* the block a context built from transaction t is pinned to
PinnedBlock(t) == IF t.block_number = None THEN LatestBlock ELSE t.block_number[1]

\* the handler has resolved the chain of its (first) transaction
PastResolution(r) ==
    /\ pc[r] # "start"
    /\ Len(req[r].txs) > 0
    /\ SupportedChain(req[r].txs[1].chain_id)

\* C14 as claimed: every request constructs exactly one context; simulate
\* makes one call on it.
C14_ExactlyOneContextAlways ==
    \A r \in Reqs :
        pc[r] = "done" =>
            /\ Len(heap) = 1
            /\ IsSingle(r) => Len(Calls(r)) = 1

\* C14 as amended: no request constructs more than one context, and a
\* request whose chain resolves constructs exactly one, before any call,
\* from the first element's block height and gas limit; every call of the
\* request is made on it; simulate makes at most one call, and one when it
\* replies.
C14_OneContextPerRequest ==
    \A r \in Reqs :
        /\ Len(heap) <= 1
        /\ HasEvm(r) <=> PastResolution(r)
        /\ HasEvm(r) =>
              /\ Len(heap) = 1 /\ evm[r] = 1
              /\ heap[1].block = PinnedBlock(req[r].txs[1])
              /\ heap[1].gas_limit = req[r].txs[1].gas_limit
        /\ (IsBundle(r) /\ pc[r] = "loop") => Len(heap[1].calls) = idx[r]
        /\ (IsBundle(r) /\ pc[r] \in {"run", "call"}) => Len(heap[1].calls) = idx[r] - 1
        /\ IsSingle(r) =>
              /\ Len(Calls(r)) <= 1
              /\ (Replied(r) => Len(Calls(r)) = 1)

\* three transactions ran on the one context, built with the first gas limit
C14_Witness ==
    \E r \in Reqs :
        /\ IsBundle(r) /\ Replied(r) /\ Len(req[r].txs) = 3
        /\ req[r].txs[1].gas_limit = 50000
        /\ req[r].txs[2].gas_limit = 21000
        /\ req[r].txs[3].gas_limit = 21000
        /\ Len(heap) = 1
        /\ heap[1].gas_limit = 50000
        /\ Len(heap[1].calls) = 3

----------------------------------------------------------------------------
(* Order and mode of the calls *)

\* the persistent state a call leaves behind
StateAfter(call) ==
    IF call.prim = "call_raw_committing" /\ call.ret.ok
    THEN Effects(call.pre, call.data, call.ret.out.success)
    ELSE call.pre

\* C16 as claimed: simulate_bundle makes only committing calls, simulate
\* makes exactly one call, a read-only one.
C16_SingleCallsExactlyOnce ==
    \A r \in Reqs :
        /\ IsBundle(r) => \A k \in 1..Len(Calls(r)) :
                              Calls(r)[k].prim = "call_raw_committing"
        /\ (IsSingle(r) /\ pc[r] = "done") =>
              /\ Len(Calls(r)) = 1
              /\ Calls(r)[1].prim = "call_raw"

\* C16 as amended: the calls of simulate_bundle are committing calls, the
\* k-th call is for the k-th element, it starts from the state the call
\* before it left, and at most one call is outstanding; simulate makes only
\* read-only calls, at most one, and exactly one when its chain resolves
\* and its value parses.
C16_SequentialModeConsistent ==
    \A r \in Reqs :
        /\ IsBundle(r) =>
              /\ Len(Calls(r)) <= Len(req[r].txs)
              /\ \A k \in 1..Len(Calls(r)) :
                    /\ Calls(r)[k].prim = "call_raw_committing"
                    /\ Calls(r)[k].data = req[r].txs[k].data
                    /\ k > 1 => /\ Calls(r)[k - 1].ret.ok
                                /\ Calls(r)[k].pre = StateAfter(Calls(r)[k - 1])
              /\ pc[r] = "call" => Len(Calls(r)) = idx[r] - 1
              /\ pc[r] = "loop" => Len(Calls(r)) = idx[r]
        /\ IsSingle(r) =>
              /\ Len(Calls(r)) <= 1
              /\ \A k \in 1..Len(Calls(r)) : Calls(r)[k].prim = "call_raw"
              /\ (pc[r] = "done" /\ PastResolution(r)
                  /\ NormalizeValue(req[r].txs[1].value).ok) => Len(Calls(r)) = 1

\* a bundle made its three committing calls in the order "b", "a", "rv"
C16_Witness ==
    \E r \in Reqs :
        /\ IsBundle(r) /\ Replied(r) /\ Len(Calls(r)) = 3
        /\ Calls(r)[1].data = Some("b")
        /\ Calls(r)[2].data = Some("a")
        /\ Calls(r)[3].data = Some("rv")
        /\ \A k \in 1..3 : Calls(r)[k].prim = "call_raw_committing"

----------------------------------------------------------------------------
(* Unsupported chain *)

\* the chain of the (first) transaction of r is not in the resolver's table
FirstChainUnsupported(r) ==
    /\ Len(req[r].txs) > 0
    /\ req[r].txs[1].chain_id \notin KnownChainIds

\* C17: once its handler has run, a request whose (first) chain identifier
\* is unsupported is rejected with NoURLForChainIdError, no context has been
\* constructed and no call made, whatever its other fields are.
C17_UnsupportedChainRejectedFirst ==
    \A r \in Reqs :
        FirstChainUnsupported(r) =>
            /\ heap = <<>>
            /\ ~HasEvm(r)
            /\ Calls(r) = <<>>
            /\ response[r] = <<>>
            /\ pc[r] \in {"start", "done"}
            /\ pc[r] = "done" => Rejected(r, "NoURLForChainIdError")

\* a bundle on an unsupported chain, with a malformed first value and a
\* later element on another chain, was rejected for its chain alone
C17_Witness ==
    \E r \in Reqs :
        /\ IsBundle(r) /\ FirstChainUnsupported(r)
        /\ Len(req[r].txs) = 3
        /\ ~NormalizeValue(req[r].txs[1].value).ok
        /\ DisagreesOnChain(req[r].txs)
        /\ DisagreesOnBlock(req[r].txs)
        /\ Rejected(r, "NoURLForChainIdError")
        /\ heap = <<>>

----------------------------------------------------------------------------
(* Per-element checks of a bundle *)

AgreesWithFirst(txs, k) ==
    /\ txs[k].chain_id = txs[1].chain_id
    /\ txs[k].block_number = txs[1].block_number

\* C18: in a bundle, the element being executed and every element a call
\* was made for agree with the first element on chain identifier and block
\* height; an element that differs from the first on either has no call.
C18_OnlyAgreeingElementsExecuted ==
    \A r \in Reqs :
        IsBundle(r) =>
            /\ pc[r] \in {"run", "call"} => AgreesWithFirst(req[r].txs, idx[r])
            /\ \A k \in 1..Len(Calls(r)) :
                  /\ Calls(r)[k].data = req[r].txs[k].data
                  /\ AgreesWithFirst(req[r].txs, k)
            /\ \A k \in 1..Len(req[r].txs) :
                  ~AgreesWithFirst(req[r].txs, k) => Len(Calls(r)) < k

\* two elements ran, the third, at another block height, was stopped at its
\* check
C18_Witness ==
    \E r \in Reqs :
        /\ IsBundle(r) /\ Len(req[r].txs) = 3
        /\ req[r].txs[3].chain_id = req[r].txs[1].chain_id
        /\ req[r].txs[3].block_number # req[r].txs[1].block_number
        /\ Rejected(r, "MultipleBlockNumbersError")
        /\ Len(Calls(r)) = 2

----------------------------------------------------------------------------
(* Malformed values *)

\* the value is present and is not a numeral of the base its prefix selects
Malformed(value) ==
    /\ IsSome(value)
    /\ IF HasHexPrefix(Unwrap(value))
       THEN ~IsNumeral(SubSeq(Unwrap(value), 3, Len(Unwrap(value))), 16)
       ELSE ~IsNumeral(Unwrap(value), 10)

ValueError(value) ==
    IF HasHexPrefix(Unwrap(value)) THEN "FromHexError" ELSE "FromDecStrError"

ValueErrors == {"FromHexError", "FromDecStrError"}

----------------------------------------------------------------------------
(* The empty bundle *)

EmptyBundle(r) == IsBundle(r) /\ req[r].txs = <<>>

\* C20: simulate_bundle on an empty sequence ends in a panic, neither a
\* reply nor a rejection, with no context constructed, no call made and no
\* response produced.
C20_EmptyBundlePanics ==
    \A r \in Reqs :
        EmptyBundle(r) =>
            /\ pc[r] \in {"start", "done"}
            /\ pc[r] = "done" => result[r] = Panic
            /\ ~Replied(r) /\ result[r].tag # "Err"
            /\ ~HasEvm(r) /\ heap = <<>>
            /\ Calls(r) = <<>> /\ response[r] = <<>>

\* the handler of an empty bundle has run
C20_Witness ==
    \E r \in Reqs : EmptyBundle(r) /\ pc[r] = "done" /\ result[r].tag = "panic"

====
